---- MODULE Spec2Model ----
(***************************************************************************)
(* Model of the Mserver lifecycle controller of boseji/mserver             *)
(* (src/mserver.go).  One Mserver value is shared, without any lock, by    *)
(* the caller goroutines that invoke its exported methods and by the       *)
(* serving goroutines that StartServer spawns.  Every read and every write *)
(* of a shared field is one atomic step, so that all interleavings of the  *)
(* unsynchronised accesses are explored.                                   *)
(***************************************************************************)
EXTENDS Integers, Sequences, FiniteSets, TLC

(* ---- bound of the model ---- *)
MaxStarts == 2      \* StartServer calls that pass the parameter check

(* ---- processes ---- *)
Main == <<"c", 1>>                 \* goroutine that owns the controller
Aux == <<"c", 2>>                  \* a second goroutine using the controller
Callers == {Main, Aux}
Goroutines == {"g"} \X (1..MaxStarts)   \* the i-th `go p.startGoServerInternal()`
Procs == Callers \cup Goroutines

(* ---- values ---- *)
NilChan == 0                       \* the zero value of `chan os.Signal`
NilServer == 0                     \* the zero value of `*http.Server`
Ids == 1..MaxStarts                \* channels / servers made by StartServer
Addrs == {<<>>, <<":", "0">>}      \* addr argument, as a sequence of characters
Muxes == {"nil", "mux"}            \* mux argument
Timeouts == {-1, 0, 2}             \* timeout argument, in seconds
DefaultServeMux == "mux"           \* http.DefaultServeMux is never nil
ErrServerNotStarted == "ErrServerNotStarted"
ErrServerClosed == "ErrServerClosed"      \* http.ErrServerClosed
ErrServe == "ErrServe"             \* listen / accept failure of ListenAndServe
DeadlineExceeded == "DeadlineExceeded"    \* ctx.Err() of the expired context

VARIABLES
    started,          \* Mserver.started
    Error,            \* Mserver.Error
    stop,             \* Mserver.stop (channel id, NilChan when unset)
    Server,           \* Mserver.Server (server id, NilServer when unset)
    ShutdownTimeout,  \* Mserver.ShutdownTimeout
    chClosed,         \* channel id -> the channel has been closed
    notify,           \* channel id -> registered with signal.Notify
    inShutdown,       \* server id -> Server.Shutdown has been called on it
    busy,             \* server id -> a connection of it is serving a request
    shutdownCalls,    \* server id -> number of Server.Shutdown invocations
    pc,               \* process -> position in its code
    loc,              \* process -> its local values (see Zero)
    nStarts,          \* channels / servers / goroutines created so far
    panicked,         \* "none", or the run-time panic that aborted the process
    data,             \* bytes held by the buffer given to BufToHexString
    hexString         \* what BufToHexString returned, NoString before the call

vars == <<started, Error, stop, Server, ShutdownTimeout, chClosed, notify,
          inShutdown, busy, shutdownCalls, pc, loc, nStarts, panicked,
          data, hexString>>

fields == <<started, Error, stop, Server, ShutdownTimeout>>
chans == <<chClosed, notify>>
servers == <<inShutdown, busy, shutdownCalls>>
util == <<data, hexString>>

(* The locals of a process that is in no call.                             *)
Zero ==
    [wait |-> FALSE,        \* waitForInterrupt argument of GracefulStop
     timeout |-> 0,         \* timeout argument of StartServer
     ch |-> NilChan,        \* channel operand evaluated from p.stop
     srv |-> NilServer,     \* receiver evaluated from p.Server
     err |-> "none",        \* what ListenAndServe returned
     res |-> "none",        \* what Server.Shutdown returned
     woke |-> "none",       \* what completed the receive from p.stop
     ret |-> "none"]        \* value GracefulStop returns

(* The zero Mserver `&Mserver{}` with started = false and Error = nil, as   *)
(* NewMserver builds it before it calls StartDefaultServer.                *)
InitController ==
    /\ started = FALSE
    /\ Error = "nil"
    /\ stop = NilChan
    /\ Server = NilServer
    /\ ShutdownTimeout = 0
    /\ chClosed = [c \in Ids |-> FALSE]
    /\ notify = [c \in Ids |-> FALSE]
    /\ inShutdown = [s \in Ids |-> FALSE]
    /\ busy = [s \in Ids |-> FALSE]
    /\ shutdownCalls = [s \in Ids |-> 0]
    /\ pc = [p \in Procs |-> IF p \in Callers THEN "idle" ELSE "unspawned"]
    /\ loc = [p \in Procs |-> Zero]
    /\ nStarts = 0
    /\ panicked = "none"

(* NoString stands for "BufToHexString has not been called": it is no  *)
(* sequence of characters.                                             *)
NoString == <<"unset">>

(* The controller after construction; the utility functions have not   *)
(* been used.                                                          *)
Init ==
    /\ InitController
    /\ data = <<>>
    /\ hexString = NoString

(* Process p moves to `label` with locals l.                               *)
Step(p, label, l) ==
    /\ pc' = [pc EXCEPT ![p] = label]
    /\ loc' = [loc EXCEPT ![p] = l]

Goto(p, label) == Step(p, label, loc[p])

(* A run-time panic aborts the process: every goroutine is gone.           *)
Panic(why) ==
    /\ panicked' = why
    /\ pc' = [p \in Procs |-> "aborted"]
    /\ loc' = [p \in Procs |-> Zero]

(* The function running in p returns v. In a caller goroutine that is the  *)
(* return of GracefulStop; startGoServerInternal discards the value and    *)
(* the serving goroutine ends.                                             *)
Return(p, v) ==
    IF p \in Callers
    THEN Step(p, "gs_return", [loc[p] EXCEPT !.ret = v])
    ELSE Step(p, "done", Zero)

(* ------------------------------------------------------------------ *)
(* StartServer (src/mserver.go:133-160)                                *)
(* ------------------------------------------------------------------ *)

(* if len(addr) == 0 || timeout == (0*time.Second) || mux == nil       *)
ParameterErrors(addr, mux, timeout) ==
    Len(addr) = 0 \/ timeout = 0 \/ mux = "nil"

(* The call and its parameter check, which reads only the arguments:   *)
(* on a parameter error the method returns at once.                    *)
StartServer(p, addr, mux, timeout) ==
    /\ pc[p] = "idle"
    /\ IF ParameterErrors(addr, mux, timeout)
       THEN Goto(p, "idle")
       ELSE /\ nStarts < MaxStarts
            /\ Step(p, "ss_stop", [Zero EXCEPT !.timeout = timeout])
    /\ UNCHANGED <<util, fields, chans, servers, nStarts, panicked>>

(* p.StartServer(addr, http.DefaultServeMux, timeout)                  *)
StartDefaultServer(p, addr, timeout) ==
    StartServer(p, addr, DefaultServeMux, timeout)

(* p.stop = make(chan os.Signal); signal.Notify(p.stop, ...)           *)
(* The new channel is unbuffered, open and registered for signals.     *)
StartServer_stop(p) ==
    /\ pc[p] = "ss_stop"
    /\ nStarts' = nStarts + 1
    /\ stop' = nStarts + 1
    /\ notify' = [notify EXCEPT ![nStarts + 1] = TRUE]
    /\ Step(p, "ss_timeout", [loc[p] EXCEPT !.ch = nStarts + 1])
    /\ UNCHANGED <<util, started, Error, Server, ShutdownTimeout, chClosed, servers,
                   panicked>>

(* p.ShutdownTimeout = timeout                                         *)
StartServer_timeout(p) ==
    /\ pc[p] = "ss_timeout"
    /\ ShutdownTimeout' = loc[p].timeout
    /\ Goto(p, "ss_server")
    /\ UNCHANGED <<util, started, Error, stop, Server, chans, servers, nStarts,
                   panicked>>

(* p.Server = &http.Server{Addr: addr, Handler: mux}                   *)
(* The server made by a call has the id of the channel it made.        *)
StartServer_server(p) ==
    /\ pc[p] = "ss_server"
    /\ Server' = loc[p].ch
    /\ Goto(p, "ss_error")
    /\ UNCHANGED <<util, started, Error, stop, ShutdownTimeout, chans, servers,
                   nStarts, panicked>>

(* p.Error = nil                                                       *)
StartServer_error(p) ==
    /\ pc[p] = "ss_error"
    /\ Error' = "nil"
    /\ Goto(p, "ss_go")
    /\ UNCHANGED <<util, started, stop, Server, ShutdownTimeout, chans, servers,
                   nStarts, panicked>>

(* go p.startGoServerInternal(), then StartServer returns.             *)
StartServer_go(p) ==
    /\ pc[p] = "ss_go"
    /\ pc' = [pc EXCEPT ![p] = "idle", ![<<"g", loc[p].ch>>] = "sg_guard"]
    /\ loc' = [loc EXCEPT ![p] = Zero]
    /\ UNCHANGED <<util, fields, chans, servers, nStarts, panicked>>

(* ------------------------------------------------------------------ *)
(* startGoServerInternal (src/mserver.go:95-109)                       *)
(* ------------------------------------------------------------------ *)

(* if p.started { return }                                             *)
startGoServerInternal_guard(g) ==
    /\ pc[g] = "sg_guard"
    /\ IF started THEN Goto(g, "done") ELSE Goto(g, "sg_set")
    /\ UNCHANGED <<util, fields, chans, servers, nStarts, panicked>>

(* p.started = true                                                    *)
startGoServerInternal_set(g) ==
    /\ pc[g] = "sg_set"
    /\ started' = TRUE
    /\ Goto(g, "sg_listen")
    /\ UNCHANGED <<util, Error, stop, Server, ShutdownTimeout, chans, servers,
                   nStarts, panicked>>

(* p.Server.ListenAndServe() is called: it reads p.Server, returns     *)
(* ErrServerClosed at once on a server already shut down, fails when   *)
(* the address cannot be bound, and otherwise enters the accept loop.  *)
ListenAndServe_call(g) ==
    /\ pc[g] = "sg_listen"
    /\ IF inShutdown[Server]
       THEN Step(g, "sg_error", [loc[g] EXCEPT !.srv = Server, !.err = ErrServerClosed])
       ELSE \/ Step(g, "sg_error", [loc[g] EXCEPT !.srv = Server, !.err = ErrServe])
            \/ Step(g, "sg_serve", [loc[g] EXCEPT !.srv = Server])
    /\ UNCHANGED <<util, fields, chans, servers, nStarts, panicked>>

(* The accept loop ends with ErrServerClosed once Shutdown was called  *)
(* on its server.                                                      *)
ListenAndServe_closed(g) ==
    /\ pc[g] = "sg_serve"
    /\ inShutdown[loc[g].srv]
    /\ Step(g, "sg_error", [loc[g] EXCEPT !.err = ErrServerClosed])
    /\ UNCHANGED <<util, fields, chans, servers, nStarts, panicked>>

(* The accept loop ends with an accept failure of its own.             *)
ListenAndServe_failed(g) ==
    /\ pc[g] = "sg_serve"
    /\ ~inShutdown[loc[g].srv]
    /\ Step(g, "sg_error", [loc[g] EXCEPT !.err = ErrServe])
    /\ UNCHANGED <<util, fields, chans, servers, nStarts, panicked>>

(* p.Error = <what ListenAndServe returned>                            *)
startGoServerInternal_error(g) ==
    /\ pc[g] = "sg_error"
    /\ Error' = loc[g].err
    /\ Goto(g, "sg_check")
    /\ UNCHANGED <<util, started, stop, Server, ShutdownTimeout, chans, servers,
                   nStarts, panicked>>

(* A variant of the check below that ends the goroutine without the   *)
(* call of stopServerInternal.                                         *)
startGoServerInternal_check_noStop(g) ==
    /\ pc[g] = "sg_check"
    /\ Return(g, "nil")
    /\ UNCHANGED <<util, fields, chans, servers, nStarts, panicked>>

(* if p.Error != nil { p.stopServerInternal() }                        *)
startGoServerInternal_check(g) ==
    /\ pc[g] = "sg_check"
    /\ IF Error # "nil" THEN Goto(g, "si_guard") ELSE Return(g, "nil")
    /\ UNCHANGED <<util, fields, chans, servers, nStarts, panicked>>

(* ------------------------------------------------------------------ *)
(* stopServerInternal (src/mserver.go:63-83), run by GracefulStop in a *)
(* caller goroutine and by startGoServerInternal in a serving one.     *)
(* ------------------------------------------------------------------ *)

(* if !p.started { return ErrServerNotStarted }                        *)
(* ctx, cancel := context.WithTimeout(context.Background(),            *)
(*                                    p.ShutdownTimeout)               *)
(* The context only carries the deadline of the Shutdown call, whose   *)
(* passing ShutdownResult models.                                      *)
stopServerInternal_guard(p) ==
    /\ pc[p] = "si_guard"
    /\ IF ~started THEN Return(p, ErrServerNotStarted) ELSE Goto(p, "si_started")
    /\ UNCHANGED <<util, fields, chans, servers, nStarts, panicked>>

(* p.started = false                                                   *)
stopServerInternal_started(p) ==
    /\ pc[p] = "si_started"
    /\ started' = FALSE
    /\ Goto(p, "si_shutdown")
    /\ UNCHANGED <<util, Error, stop, Server, ShutdownTimeout, chans, servers,
                   nStarts, panicked>>

(* p.Server.Shutdown(ctx) is called: it reads p.Server, marks the      *)
(* server as shutting down and closes its listeners, which ends every  *)
(* accept loop of that server.                                         *)
Shutdown_call(p) ==
    /\ pc[p] = "si_shutdown"
    /\ inShutdown' = [inShutdown EXCEPT ![Server] = TRUE]
    /\ shutdownCalls' = [shutdownCalls EXCEPT ![Server] = @ + 1]
    /\ Step(p, "si_wait", [loc[p] EXCEPT !.srv = Server])
    /\ UNCHANGED <<util, fields, chans, busy, nStarts, panicked>>

(* What Server.Shutdown(ctx) returns: nil once no connection of the    *)
(* server is serving a request; ctx.Err() when the deadline of ctx     *)
(* passes first, and then the connections still serving are left open. *)
ShutdownResult(p) ==
    IF busy[loc[p].srv] THEN DeadlineExceeded ELSE "nil"

(* p.Error = p.Server.Shutdown(ctx): the call returns and its result   *)
(* is stored.                                                          *)
Shutdown_return(p) ==
    /\ pc[p] = "si_wait"
    /\ Error' = ShutdownResult(p)
    /\ Step(p, "si_return", [loc[p] EXCEPT !.res = ShutdownResult(p)])
    /\ UNCHANGED <<util, started, stop, Server, ShutdownTimeout, chans, servers,
                   nStarts, panicked>>

(* if p.Error != nil { return p.Error }; return p.Error                *)
(* Both branches return what p.Error holds when it is read again.      *)
stopServerInternal_return(p) ==
    /\ pc[p] = "si_return"
    /\ Step(p, "si_close", [loc[p] EXCEPT !.ret = Error])
    /\ UNCHANGED <<util, fields, chans, servers, nStarts, panicked>>

(* defer close(p.stop), run on the way out: closing the nil channel or *)
(* a closed channel panics.                                            *)
stopServerInternal_close(p) ==
    /\ pc[p] = "si_close"
    /\ IF stop = NilChan
       THEN /\ Panic("close of nil channel")
            /\ UNCHANGED chClosed
       ELSE IF chClosed[stop]
       THEN /\ Panic("close of closed channel")
            /\ UNCHANGED chClosed
       ELSE /\ chClosed' = [chClosed EXCEPT ![stop] = TRUE]
            /\ Return(p, loc[p].ret)
            /\ panicked' = panicked
    /\ UNCHANGED <<util, fields, notify, servers, nStarts>>

(* ------------------------------------------------------------------ *)
(* GracefulStop (src/mserver.go:172-189)                               *)
(* ------------------------------------------------------------------ *)

GracefulStop(p, waitForInterrupt) ==
    /\ pc[p] = "idle"
    /\ Step(p, "gs_error", [Zero EXCEPT !.wait = waitForInterrupt])
    /\ UNCHANGED <<util, fields, chans, servers, nStarts, panicked>>

(* if waitForInterrupt && p.Error == nil { ... }                       *)
GracefulStop_error(p) ==
    /\ pc[p] = "gs_error"
    /\ IF loc[p].wait /\ Error = "nil"
       THEN Goto(p, "gs_stop")
       ELSE Goto(p, "gs_started")
    /\ UNCHANGED <<util, fields, chans, servers, nStarts, panicked>>

(* A variant of the step below that does not wait, as if an event     *)
(* that arrived earlier had been kept for it.                          *)
GracefulStop_stop_noWait(p) ==
    /\ pc[p] = "gs_stop"
    /\ Step(p, "gs_started", [loc[p] EXCEPT !.ch = stop, !.woke = "signal"])
    /\ UNCHANGED <<util, fields, chans, servers, nStarts, panicked>>

(* <-p.stop: the channel operand is read from the field, then the      *)
(* receive blocks on that channel.                                     *)
GracefulStop_stop(p) ==
    /\ pc[p] = "gs_stop"
    /\ Step(p, "gs_recv", [loc[p] EXCEPT !.ch = stop])
    /\ UNCHANGED <<util, fields, chans, servers, nStarts, panicked>>

(* The receive completes because the channel is closed. A receive from *)
(* the nil channel never completes.                                    *)
GracefulStop_recvClosed(p) ==
    /\ pc[p] = "gs_recv"
    /\ loc[p].ch # NilChan
    /\ chClosed[loc[p].ch]
    /\ Step(p, "gs_started", [loc[p] EXCEPT !.woke = "close"])
    /\ UNCHANGED <<util, fields, chans, servers, nStarts, panicked>>

(* A variant of the check below that returns nil where the code        *)
(* returns ErrServerNotStarted.                                        *)
GracefulStop_started_nil(p) ==
    /\ pc[p] = "gs_started"
    /\ IF ~started THEN Return(p, "nil") ELSE Goto(p, "si_guard")
    /\ UNCHANGED <<util, fields, chans, servers, nStarts, panicked>>

(* if !p.started { return ErrServerNotStarted }                        *)
(* otherwise: return p.stopServerInternal()                            *)
GracefulStop_started(p) ==
    /\ pc[p] = "gs_started"
    /\ IF ~started THEN Return(p, ErrServerNotStarted) ELSE Goto(p, "si_guard")
    /\ UNCHANGED <<util, fields, chans, servers, nStarts, panicked>>

(* The caller has the value GracefulStop returned and goes on.         *)
GracefulStop_return(p) ==
    /\ pc[p] = "gs_return"
    /\ Step(p, "idle", Zero)
    /\ UNCHANGED <<util, fields, chans, servers, nStarts, panicked>>

(* ------------------------------------------------------------------ *)
(* ForceStop (src/mserver.go:193-203)                                  *)
(* ------------------------------------------------------------------ *)

(* The call of the method.                                             *)
ForceStop(p) ==
    /\ pc[p] = "idle"
    /\ Step(p, "fs_started", Zero)
    /\ UNCHANGED <<util, fields, chans, servers, nStarts, panicked>>

(* A variant of the check below that goes on whatever started holds.  *)
ForceStop_started_noCheck(p) ==
    /\ pc[p] = "fs_started"
    /\ Goto(p, "fs_sigstop")
    /\ UNCHANGED <<util, fields, chans, servers, nStarts, panicked>>

(* if !p.started { return }                                            *)
ForceStop_started(p) ==
    /\ pc[p] = "fs_started"
    /\ IF ~started THEN Goto(p, "idle") ELSE Goto(p, "fs_sigstop")
    /\ UNCHANGED <<util, fields, chans, servers, nStarts, panicked>>

(* signal.Stop(p.stop)                                                 *)
ForceStop_sigstop(p) ==
    /\ pc[p] = "fs_sigstop"
    /\ notify' = IF stop = NilChan THEN notify ELSE [notify EXCEPT ![stop] = FALSE]
    /\ Goto(p, "fs_stop")
    /\ UNCHANGED <<util, fields, chClosed, servers, nStarts, panicked>>

(* p.stop <- os.Kill: the channel operand is read from the field, then *)
(* the send blocks on that unbuffered channel.                         *)
ForceStop_stop(p) ==
    /\ pc[p] = "fs_stop"
    /\ Step(p, "fs_send", [loc[p] EXCEPT !.ch = stop])
    /\ UNCHANGED <<util, fields, chans, servers, nStarts, panicked>>

(* A variant of the send below that completes without a receiver, as  *)
(* a send on a buffered channel would.                                 *)
ForceStop_send_noReceiver(s, r) ==
    /\ pc[s] = "fs_send"
    /\ loc[s].ch # NilChan
    /\ ~chClosed[loc[s].ch]
    /\ Step(s, "idle", Zero)
    /\ UNCHANGED <<util, fields, chans, servers, nStarts, panicked>>

(* The send of ForceStop in s meets the receive of GracefulStop in r   *)
(* on the same open channel: ForceStop returns, GracefulStop goes on.  *)
ForceStop_send(s, r) ==
    /\ pc[s] = "fs_send"
    /\ pc[r] = "gs_recv"
    /\ loc[s].ch # NilChan
    /\ loc[s].ch = loc[r].ch
    /\ ~chClosed[loc[s].ch]
    /\ pc' = [pc EXCEPT ![s] = "idle", ![r] = "gs_started"]
    /\ loc' = [loc EXCEPT ![s] = Zero, ![r] = [loc[r] EXCEPT !.woke = "ForceStop"]]
    /\ UNCHANGED <<util, fields, chans, servers, nStarts, panicked>>

(* A send on a closed channel panics, also when the channel is closed  *)
(* while the sender is blocked on it.                                  *)
ForceStop_sendClosed(p) ==
    /\ pc[p] = "fs_send"
    /\ loc[p].ch # NilChan
    /\ chClosed[loc[p].ch]
    /\ Panic("send on closed channel")
    /\ UNCHANGED <<util, fields, chans, servers, nStarts>>

(* ------------------------------------------------------------------ *)
(* Environment: os/signal and the clients of the server                *)
(* ------------------------------------------------------------------ *)

Receivers(ch) == {p \in Callers : pc[p] = "gs_recv" /\ loc[p].ch = ch}

(* os.Interrupt arrives. The signal package makes a non-blocking send  *)
(* on every channel registered with signal.Notify (src/mserver.go:142):*)
(* one blocked receiver of the channel gets it, with no receiver it is *)
(* dropped, and on a closed channel the send panics.                   *)
Signal ==
    /\ panicked = "none"
    /\ IF \E ch \in Ids : notify[ch] /\ chClosed[ch]
       THEN Panic("signal: send on closed channel")
       ELSE /\ \E W \in SUBSET Callers :
                 /\ \A p \in W : pc[p] = "gs_recv" /\ loc[p].ch # NilChan
                                 /\ notify[loc[p].ch]
                 /\ \A ch \in Ids : notify[ch] /\ Receivers(ch) # {}
                        => Cardinality(W \cap Receivers(ch)) = 1
                 /\ pc' = [p \in Procs |-> IF p \in W THEN "gs_started" ELSE pc[p]]
                 /\ loc' = [p \in Procs |-> IF p \in W
                                THEN [loc[p] EXCEPT !.woke = "signal"] ELSE loc[p]]
            /\ panicked' = panicked
    /\ UNCHANGED <<util, fields, chans, servers, nStarts>>

(* A client's request is accepted by a running accept loop of server s *)
(* (p.Server.ListenAndServe, src/mserver.go:104).                      *)
Accept(s) ==
    /\ \E g \in Goroutines : pc[g] = "sg_serve" /\ loc[g].srv = s
    /\ ~inShutdown[s]
    /\ ~busy[s]
    /\ busy' = [busy EXCEPT ![s] = TRUE]
    /\ UNCHANGED <<util, fields, chans, inShutdown, shutdownCalls, pc, loc, nStarts,
                   panicked>>

(* The handler of the request returns and its connection is closed,   *)
(* unless a panic has ended the process.                               *)
Served(s) ==
    /\ panicked = "none"
    /\ busy[s]
    /\ busy' = [busy EXCEPT ![s] = FALSE]
    /\ UNCHANGED <<util, fields, chans, inShutdown, shutdownCalls, pc, loc, nStarts,
                   panicked>>

(* ------------------------------------------------------------------ *)
(* The program                                                         *)
(* ------------------------------------------------------------------ *)

(* No serving goroutine is running: none was spawned yet, or each one  *)
(* spawned has ended.                                                  *)
Quiescent == \A g \in Goroutines : pc[g] \in {"unspawned", "done"}

(* Steps of a caller goroutine inside the method it called.            *)
CallerRun(p) ==
    \/ StartServer_stop(p)
    \/ StartServer_timeout(p)
    \/ StartServer_server(p)
    \/ StartServer_error(p)
    \/ StartServer_go(p)
    \/ GracefulStop_error(p)
    \/ GracefulStop_stop(p)
    \/ GracefulStop_recvClosed(p)
    \/ GracefulStop_started(p)
    \/ GracefulStop_return(p)
    \/ ForceStop_started(p)
    \/ ForceStop_sigstop(p)
    \/ ForceStop_stop(p)
    \/ \E r \in Callers : ForceStop_send(p, r)
    \/ ForceStop_sendClosed(p)

(* The calls the caller goroutines make. Main is the goroutine that    *)
(* owns the controller, as `main` in src/README.md:21-30: it starts    *)
(* the server and calls GracefulStop, and it starts the server again   *)
(* only once the serving goroutine of the previous start has ended.    *)
(* Aux is a goroutine that asks for the stop with ForceStop.           *)
Call ==
    \/ /\ Quiescent
       /\ \E a \in Addrs, m \in Muxes, t \in Timeouts : StartServer(Main, a, m, t)
    \/ /\ Quiescent
       /\ \E a \in Addrs, t \in Timeouts : StartDefaultServer(Main, a, t)
    \/ \E w \in BOOLEAN : GracefulStop(Main, w)
    \/ ForceStop(Aux)

(* Steps of stopServerInternal, in whichever goroutine runs it.        *)
StopStep(p) ==
    \/ stopServerInternal_guard(p)
    \/ stopServerInternal_started(p)
    \/ Shutdown_call(p)
    \/ Shutdown_return(p)
    \/ stopServerInternal_return(p)
    \/ stopServerInternal_close(p)

(* Steps of a serving goroutine, but for a failure of its accept loop. *)
ServeRun(g) ==
    \/ startGoServerInternal_guard(g)
    \/ startGoServerInternal_set(g)
    \/ ListenAndServe_call(g)
    \/ ListenAndServe_closed(g)
    \/ startGoServerInternal_error(g)
    \/ startGoServerInternal_check(g)

(* After a panic no goroutine is left to take a step.                  *)
Next ==
    \/ Call
    \/ \E p \in Callers : CallerRun(p)
    \/ \E p \in Procs : StopStep(p)
    \/ \E g \in Goroutines : ServeRun(g)
    \/ \E g \in Goroutines : ListenAndServe_failed(g)
    \/ Signal
    \/ \E s \in Ids : Accept(s)
    \/ \E s \in Ids : Served(s)

Spec == Init /\ [][Next]_vars

(* The Go scheduler runs every goroutine that can run: a goroutine     *)
(* inside a function finishes each step it is able to take. Nothing    *)
(* obliges a caller to make a call, a signal or a request to arrive, a *)
(* handler to return or an accept loop to fail.                        *)
FairSpec ==
    /\ Spec
    /\ \A p \in Callers : WF_vars(CallerRun(p))
    /\ \A p \in Procs : WF_vars(StopStep(p))
    /\ \A g \in Goroutines : WF_vars(ServeRun(g))

(* ------------------------------------------------------------------ *)
(* StartServer called again on a controller in use                     *)
(* ------------------------------------------------------------------ *)

(* A program whose only goroutine using the controller, Main, calls    *)
(* StartServer whenever it likes, also while serving goroutines of     *)
(* earlier calls are running, and stops the server with                *)
(* GracefulStop(false). No signal and no request arrives.              *)
RestartNext ==
    \/ \E a \in Addrs, m \in Muxes, t \in Timeouts : StartServer(Main, a, m, t)
    \/ StartServer_stop(Main)
    \/ StartServer_timeout(Main)
    \/ StartServer_server(Main)
    \/ StartServer_error(Main)
    \/ StartServer_go(Main)
    \/ GracefulStop(Main, FALSE)
    \/ GracefulStop_error(Main)
    \/ GracefulStop_started(Main)
    \/ GracefulStop_return(Main)
    \/ \E p \in {Main} \cup Goroutines : StopStep(p)
    \/ \E g \in Goroutines : ServeRun(g)
    \/ \E g \in Goroutines : ListenAndServe_failed(g)

RestartSpec == Init /\ [][RestartNext]_vars

(* ------------------------------------------------------------------ *)
(* BufToHexString (src/mserver.go:283-285)                             *)
(* A string is modelled as the sequence of its characters.             *)
(* ------------------------------------------------------------------ *)

MaxLen == 4            \* longest buffer of sample bytes

(* The values of a byte, and the bytes the longer buffers are made of: *)
(* both nibbles zero, one nibble zero, both over 9, all bits set.      *)
Bytes == 0..255
SampleBytes == {0, 2, 5, 8, 15, 16, 171, 255}

RECURSIVE SeqsUpTo(_, _)
SeqsUpTo(S, n) ==
    IF n = 0 THEN {<<>>}
    ELSE LET shorter == SeqsUpTo(S, n - 1)
         IN  shorter \cup {Append(b, x) : b \in shorter, x \in S}

(* Buffers handed to BufToHexString: every single byte, and every      *)
(* sequence of at most MaxLen sample bytes.                            *)
Buffers == {<<x>> : x \in Bytes} \cup SeqsUpTo(SampleBytes, MaxLen)

(* The digits fmt uses for the verb %x.                                *)
ldigits ==
    <<"0", "1", "2", "3", "4", "5", "6", "7", "8", "9",
      "a", "b", "c", "d", "e", "f">>

(* A variant of the function below that formats each byte as a number, *)
(* without its leading zero.                                           *)
RECURSIVE BufToHexString_noPad(_)
BufToHexString_noPad(b) ==
    IF b = <<>> THEN <<>>
    ELSE (IF Head(b) < 16 THEN <<ldigits[Head(b) + 1]>>
          ELSE <<ldigits[(Head(b) \div 16) + 1], ldigits[(Head(b) % 16) + 1]>>)
         \o BufToHexString_noPad(Tail(b))

(* fmt.Sprintf("%x", data.Bytes()): for each byte in order, the digit  *)
(* of its high four bits and the digit of its low four bits.           *)
RECURSIVE BufToHexString(_)
BufToHexString(b) ==
    IF b = <<>> THEN <<>>
    ELSE <<ldigits[(Head(b) \div 16) + 1], ldigits[(Head(b) % 16) + 1]>>
         \o BufToHexString(Tail(b))

(* s := BufToHexString(b), as in TestBufToHexString                    *)
(* (src/unnamed/part_003:8-16).                                        *)
BufToHexString_call ==
    /\ hexString = NoString
    /\ hexString' = BufToHexString(data)
    /\ UNCHANGED <<fields, chans, servers, pc, loc, nStarts, panicked, data>>

(* A program that only converts one buffer.                            *)
HexInit ==
    /\ InitController
    /\ data \in Buffers
    /\ hexString = NoString

HexSpec == HexInit /\ [][BufToHexString_call]_vars

(* ================================================================== *)
(* Properties                                                          *)
(* ================================================================== *)

TypeOK ==
    /\ started \in BOOLEAN
    /\ Error \in {"nil", ErrServerClosed, ErrServe, DeadlineExceeded}
    /\ stop \in {NilChan} \cup Ids
    /\ Server \in {NilServer} \cup Ids
    /\ ShutdownTimeout \in Timeouts
    /\ nStarts \in 0..MaxStarts

(* The accept loop of g has returned an error that g has yet to store  *)
(* or act on.                                                          *)
InErrorPath(g) ==
    pc[g] \in {"sg_error", "sg_check", "si_guard", "si_started", "si_shutdown",
               "si_wait", "si_return", "si_close"}

(* p is inside stopServerInternal, past its `started` guard.           *)
PastGuard(p) ==
    pc[p] \in {"si_started", "si_shutdown", "si_wait", "si_return", "si_close"}

(* Server.Shutdown has been called by p and has returned.              *)
ShutdownReturned(p) == loc[p].res # "none"

(* The accept loop of g is serving, or g is on its way into it.        *)
AcceptActive(g) ==
    \/ pc[g] = "sg_guard" /\ ~started /\ ~inShutdown[Server]
    \/ pc[g] \in {"sg_set", "sg_listen"} /\ ~inShutdown[Server]
    \/ pc[g] = "sg_serve" /\ ~inShutdown[loc[g].srv]

(* C1: The Server.Shutdown primitive is never invoked twice on the     *)
(* server of a started controller, whichever of GracefulStop and the   *)
(* error path of the serving goroutine reach stopServerInternal.       *)
C1_ShutdownAtMostOnce == \A s \in Ids : shutdownCalls[s] <= 1

(* C2: The termination channel is never closed a second time and      *)
(* never sent on after it was closed: no run reaches the panic of a    *)
(* close of a closed channel or of a send on a closed channel.         *)
C2_NoChannelPanic ==
    panicked \notin {"close of closed channel", "send on closed channel",
                     "signal: send on closed channel"}

(* C3: GracefulStop on a controller that no StartServer call has set   *)
(* up (stop is the nil channel) does not block, and it returns         *)
(* ErrServerNotStarted, for either value of waitForInterrupt.          *)
C3_NeverStartedReturns ==
    nStarts = 0 =>
        /\ pc[Main] # "gs_recv"
        /\ pc[Main] = "gs_return" => loc[Main].ret = ErrServerNotStarted

(* C4: When GracefulStop returns on a controller that StartServer set  *)
(* up, the server is stopped: no accept loop is serving or about to.   *)
C4_StoppedOnReturn ==
    (pc[Main] = "gs_return" /\ nStarts >= 1) =>
        \A g \in Goroutines : ~AcceptActive(g)

(* C5: A GracefulStop(true) call that a ForceStop woke from its wait   *)
(* on the termination channel returns nil when the Server.Shutdown it  *)
(* then made succeeded.                                                *)
C5_ForceStopThenNil ==
    (pc[Main] = "gs_return" /\ loc[Main].woke = "ForceStop"
                            /\ loc[Main].res = "nil")
        => loc[Main].ret = "nil"

(* No caller goroutine is inside a method of the controller.          *)
CallersIdle == \A p \in Callers : pc[p] = "idle"

(* The controller is stopped: started is false, Server.Shutdown has    *)
(* been called on its server and its termination channel is closed.    *)
Stopped ==
    /\ ~started
    /\ Server # NilServer /\ shutdownCalls[Server] >= 1
    /\ stop # NilChan /\ chClosed[stop]

(* p is inside a GracefulStop(true) call that has not returned yet.    *)
InGracefulStopWait(p) ==
    /\ loc[p].wait
    /\ pc[p] \in {"gs_error", "gs_stop", "gs_recv", "gs_started", "si_guard",
                  "si_started", "si_shutdown", "si_wait", "si_return",
                  "si_close"}

(* C6: When ListenAndServe of a running controller has returned an     *)
(* error of its own, then, unless a caller makes a call, the           *)
(* controller eventually is stopped: started false, Server.Shutdown    *)
(* called, termination channel closed.                                 *)
C6_ErrorPathStops ==
    (\E g \in Goroutines :
        pc[g] = "sg_error" /\ loc[g].err = ErrServe /\ started /\ CallersIdle)
            ~> (Stopped \/ ~CallersIdle)

(* C6 witness: the error path of a serving goroutine, alone, has set   *)
(* started to false and called Shutdown and is about to close the      *)
(* termination channel.                                                *)
C6_Witness ==
    \E g \in Goroutines :
        /\ pc[g] = "si_close" /\ loc[g].err = ErrServe
        /\ CallersIdle /\ ~started /\ shutdownCalls[loc[g].srv] = 1
        /\ ~chClosed[stop]

(* C7: A GracefulStop(true) call in progress while the serving         *)
(* goroutine is on its error path eventually returns.                  *)
C7_ReturnsAfterServeError ==
    ((\E g \in Goroutines : InErrorPath(g) /\ loc[g].err = ErrServe)
        /\ InGracefulStopWait(Main))
            ~> pc[Main] = "gs_return"

(* C8: A StartServer call with an empty address, a nil handler or a    *)
(* timeout that is not positive returns leaving every field of the     *)
(* controller as it was and spawns no serving goroutine.               *)
C8_RejectsBadParameters ==
    [][\A a \in Addrs, m \in Muxes, t \in Timeouts :
          (StartServer(Main, a, m, t) /\ (Len(a) = 0 \/ m = "nil" \/ t <= 0))
              => (pc'[Main] = "idle" /\ UNCHANGED <<fields, nStarts>>)]_vars

(* C9: The value GracefulStop returns is nil, ErrServerNotStarted or   *)
(* what the Server.Shutdown call of that GracefulStop returned: never  *)
(* what the serving goroutine stored into Error from ListenAndServe.   *)
C9_ReturnValue ==
    pc[Main] = "gs_return" =>
        \/ loc[Main].ret \in {"nil", ErrServerNotStarted}
        \/ ShutdownReturned(Main) /\ loc[Main].ret = loc[Main].res

(* C10: Once a Server.Shutdown call has returned, also when its        *)
(* deadline passed before the requests in flight completed, no         *)
(* connection of that server is still open.                            *)
C10_NoConnectionAfterShutdown ==
    \A p \in Procs : ShutdownReturned(p) => ~busy[loc[p].srv]

(* p is inside GracefulStop and has not passed the started guard of    *)
(* stopServerInternal.                                                 *)
BeforeGuard(p) ==
    pc[p] \in {"gs_error", "gs_stop", "gs_recv", "gs_started", "si_guard"}

(* C11: Once a shutdown of the controller has completed (Shutdown      *)
(* called and the termination channel closed), no accept loop of the   *)
(* controller is active or about to become active again.               *)
C11_StoppedIsTerminal ==
    (\E s \in Ids : shutdownCalls[s] >= 1 /\ chClosed[s])
        => \A g \in Goroutines : ~AcceptActive(g)

(* C12: While the controller is stopped, a GracefulStop call that has  *)
(* not passed the started guard never waits on an open channel, never  *)
(* goes on to Server.Shutdown and the close of the channel, and        *)
(* returns ErrServerNotStarted.                                        *)
C12_StopAfterStopped ==
    [][(Stopped /\ BeforeGuard(Main)) =>
          /\ pc[Main] = "gs_recv" => chClosed[loc[Main].ch]
          /\ pc'[Main] # "si_started"
          /\ pc'[Main] = "gs_return" => loc'[Main].ret = ErrServerNotStarted]_vars

(* C12 witness: a GracefulStop(true) call on the stopped controller    *)
(* was woken by the closed channel and returns ErrServerNotStarted.    *)
C12_Witness ==
    /\ Stopped /\ pc[Main] = "gs_return"
    /\ loc[Main].wait /\ loc[Main].woke = "close"
    /\ loc[Main].res = "none" /\ loc[Main].ret = ErrServerNotStarted
    /\ \A g \in Goroutines : pc[g] \in {"unspawned", "done"}

(* The controller never reached Running: no serving goroutine has      *)
(* executed `p.started = true`.                                        *)
NeverRunning ==
    \A g \in Goroutines : pc[g] \in {"unspawned", "sg_guard", "sg_set"}

(* C13: On a controller that never reached Running, the step ForceStop *)
(* takes after its call is the return: it changes no field of the      *)
(* controller, no channel and no signal registration, sends nothing    *)
(* and does not panic.                                                 *)
C13_ForceStopNoOp ==
    [][(NeverRunning /\ pc[Aux] = "fs_started" /\ pc'[Aux] # "fs_started") =>
          /\ pc'[Aux] = "idle"
          /\ UNCHANGED <<fields, chans, servers, panicked>>
          /\ pc'[Main] = pc[Main]]_vars

(* C13 witness: ForceStop has been called while the started flag was   *)
(* never set, with a GracefulStop(true) waiting on the registered,     *)
(* open termination channel.                                           *)
C13_Witness ==
    /\ NeverRunning /\ pc[Aux] = "fs_started"
    /\ pc[Main] = "gs_recv" /\ loc[Main].ch = stop /\ stop # NilChan
    /\ notify[stop] /\ ~chClosed[stop]

(* The value of a lowercase hexadecimal digit; 16 for any other        *)
(* character.                                                          *)
HexValue(c) ==
    CASE c = "0" -> 0  [] c = "1" -> 1  [] c = "2" -> 2  [] c = "3" -> 3
      [] c = "4" -> 4  [] c = "5" -> 5  [] c = "6" -> 6  [] c = "7" -> 7
      [] c = "8" -> 8  [] c = "9" -> 9  [] c = "a" -> 10 [] c = "b" -> 11
      [] c = "c" -> 12 [] c = "d" -> 13 [] c = "e" -> 14 [] c = "f" -> 15
      [] OTHER -> 16

(* C14: The string BufToHexString returns for n bytes has exactly 2*n  *)
(* characters, and its characters 2*i-1 and 2*i are the lowercase      *)
(* hexadecimal digits of the high and the low half of byte i.          *)
C14_TwoDigitsPerByte ==
    hexString # NoString =>
        /\ Len(hexString) = 2 * Len(data)
        /\ \A i \in 1..Len(data) :
              /\ HexValue(hexString[2 * i - 1]) < 16
              /\ HexValue(hexString[2 * i]) < 16
              /\ 16 * HexValue(hexString[2 * i - 1]) + HexValue(hexString[2 * i])
                    = data[i]

(* C14 witness: the case of TestBufToHexString, "\x02\x05\x08\x00"     *)
(* gives "02050800".                                                   *)
C14_Witness ==
    /\ data = <<2, 5, 8, 0>>
    /\ hexString = <<"0", "2", "0", "5", "0", "8", "0", "0">>

(* The accept loop of g is running on a server not shut down.          *)
Serving(g) == pc[g] = "sg_serve" /\ ~inShutdown[loc[g].srv]

(* C15: At most one serving goroutine of the controller is inside its  *)
(* accept loop at any time.                                            *)
C15_OneAcceptLoop ==
    Cardinality({g \in Goroutines : Serving(g)}) <= 1

(* C16: While an accept loop of the controller is running, no step     *)
(* assigns Server, ShutdownTimeout or the termination channel.         *)
C16_ConfigImmutable ==
    [][(\E g \in Goroutines : Serving(g))
          => UNCHANGED <<Server, ShutdownTimeout, stop>>]_vars

(* The Server.Shutdown call of p is in progress.                       *)
InShutdownCall(p) == pc[p] = "si_wait"

(* C17: While a Server.Shutdown call made by stopServerInternal is in  *)
(* progress, and after it has returned until stopServerInternal ends,  *)
(* started is false; and the termination channel is not closed while   *)
(* a Shutdown call is in progress.                                     *)
C17_StartedFalseThenShutdownThenClose ==
    \A p \in Procs :
        /\ (InShutdownCall(p) \/ pc[p] \in {"si_return", "si_close"}) => ~started
        /\ InShutdownCall(p) => ~chClosed[stop]

(* g has stored the error its accept loop failed with and is on the    *)
(* way through the shutdown that the error triggers.                   *)
ErrorRecorded(g) ==
    /\ loc[g].err = ErrServe
    /\ pc[g] \in {"sg_check", "si_guard", "si_started", "si_shutdown",
                  "si_wait", "si_return", "si_close"}

(* C18: From the moment the serving goroutine has stored the error of  *)
(* its accept loop and while the shutdown triggered by that error      *)
(* runs, the Error field holds that error.                             *)
C18_LastErrorKept ==
    \A g \in Goroutines : ErrorRecorded(g) => Error = loc[g].err

(* A termination event reaches the receive of GracefulStop in p in     *)
(* this step: a signal, the send of a ForceStop, or the channel being  *)
(* closed.                                                             *)
EventFor(p) ==
    \/ Signal
    \/ \E s \in Callers : ForceStop_send(s, p)
    \/ GracefulStop_recvClosed(p)

(* C19: A signal that arrives while no GracefulStop is blocked in the  *)
(* receive changes nothing; a GracefulStop(true) that finds Error nil  *)
(* then blocks in the receive, and leaves it only in a step in which   *)
(* a termination event arrives.                                        *)
C19_SignalNotLatched ==
    [][/\ (Signal /\ panicked' = "none" /\ \A p \in Callers : pc[p] # "gs_recv")
            => UNCHANGED vars
       /\ (pc[Main] = "gs_stop" /\ pc'[Main] # "gs_stop")
            => pc'[Main] \in {"gs_recv", "aborted"}
       /\ (pc[Main] = "gs_recv" /\ pc'[Main] \notin {"gs_recv", "aborted"})
            => EventFor(Main)]_vars

(* C19 witness: GracefulStop(true) is blocked in the receive on the    *)
(* open, registered channel of a running controller: no event that     *)
(* came before it has woken it.                                        *)
C19_Witness ==
    /\ \E g \in Goroutines : Serving(g)
    /\ pc[Main] = "gs_recv" /\ loc[Main].wait /\ loc[Main].woke = "none"
    /\ stop # NilChan /\ loc[Main].ch = stop
    /\ notify[stop] /\ ~chClosed[stop]
    /\ pc[Aux] = "idle"

(* ForceStop in p is past its started check.                           *)
InForceStopSend(p) == pc[p] \in {"fs_sigstop", "fs_stop", "fs_send"}

(* C20: A ForceStop that has passed its started check returns only in  *)
(* a step in which a GracefulStop blocked in the receive on the same   *)
(* channel takes its event and goes on; otherwise it stays in the send *)
(* or the process panics.                                              *)
C20_ForceStopBlocksUntilReceived ==
    [][(InForceStopSend(Aux) /\ ~InForceStopSend(Aux)') =>
          \/ pc'[Aux] = "aborted"
          \/ /\ pc[Aux] = "fs_send" /\ pc'[Aux] = "idle"
             /\ pc[Main] = "gs_recv" /\ loc[Main].ch = loc[Aux].ch
             /\ pc'[Main] = "gs_started" /\ loc'[Main].woke = "ForceStop"]_vars

(* C20 witness: the event of a first ForceStop was taken by            *)
(* GracefulStop, started is still true, and a second ForceStop is      *)
(* blocked in the send on the open channel with no receiver.           *)
C20_Witness ==
    /\ pc[Aux] = "fs_send" /\ loc[Aux].ch = stop /\ stop # NilChan
    /\ ~chClosed[stop] /\ started
    /\ loc[Main].woke = "ForceStop" /\ pc[Main] \in {"gs_started", "si_guard"}

====
